---- MODULE Spec2Model ----
(***************************************************************************)
(* Model of src/main.rs: an RTIC application that toggles an LED from a    *)
(* falling-edge GPIO interrupt on a pulled-up button line and debounces    *)
(* the button with a software task scheduled on a 1 kHz SysTick monotonic. *)
(*                                                                         *)
(* The processor is a single core with nested, priority-driven interrupts: *)
(* `stack` holds the tasks that have started and not returned, the last    *)
(* one being the one that executes.  A task starts only when its priority  *)
(* is strictly above the priority the core currently runs at, which is the *)
(* priority of the running tasks raised to the ceiling of every resource   *)
(* they hold (RTIC's lock).  The SysTick handler of the monotonic runs     *)
(* above every task and is folded into the clock step.                     *)
(***************************************************************************)
EXTENDS Integers, Sequences, FiniteSets, TLC

VARIABLES
    pressed,      \* Shared.pressed
    led,          \* Local.led output level
    level,        \* electrical level of the button line (TRUE = high)
    triggered,    \* latched interrupt-status bit of the button line
    now,          \* monotonic clock, in ticks
    tq,           \* timer queue: instants of the scheduled debounce tasks
    rq,           \* number of debounce tasks ready for the dispatcher
    stack,        \* tasks started and not yet returned, running one last
    pcInt,        \* position of int_toggle
    pcDeb,        \* position of debounce
    panicked,     \* unwrap() raised the fatal fault
    userDone,     \* the user has stopped operating the button
    held,         \* resources each task is inside the lock closure of
    asleep,       \* idle has executed wfi and the core waits for an interrupt
    \* ---- observation of the run (written, never read, by the program) ----
    edges,        \* falling edges produced on the line
    invocations,  \* entries of int_toggle
    toggles,      \* led.toggle() calls
    spawned,      \* successful debounce::spawn_after calls
    dispatched,   \* debounce invocations
    logTriggered, \* "Interrupt was triggered!" events
    logBounce,    \* "bounce..." events
    cleared,      \* the current int_toggle invocation has cleared the flag
    entryPressed, \* value of pressed when the current invocation started
    lastEvent,    \* last trace event of int_toggle
    lastRead,     \* level returned by the last button.is_set()
    lastWrite,    \* last write of pressed: who, old value, new value
    spawnedAt,    \* clock at the last spawn_after call
    spawnDelay,   \* delay, in ticks, handed to the last spawn_after call
    dispatchedAt, \* clock when the last debounce instance was made ready
    firstEdgeAt,  \* clock at the first falling edge (-1: none yet)
    secondEdgeAt, \* clock at the second falling edge (-1: none yet)
    edgeInDebounce,     \* an edge latched while debounce was executing waits
    servingDebounceEdge \* the last flag clear took such an edge

vars == << pressed, led, level, triggered, now, tq, rq, stack, pcInt, pcDeb,
           panicked, userDone, held, asleep, edgeInDebounce,
           servingDebounceEdge, edges, invocations, toggles, spawned,
           dispatched, logTriggered, logBounce, cleared, entryPressed,
           lastEvent, lastRead, lastWrite, spawnedAt, spawnDelay,
           dispatchedAt, firstEdgeAt, secondEdgeAt >>

obsVars == << edges, invocations, toggles, spawned, dispatched, logTriggered,
              logBounce, cleared, entryPressed, lastEvent, lastRead,
              lastWrite, spawnedAt, spawnDelay, dispatchedAt, firstEdgeAt,
              secondEdgeAt >>

----------------------------------------------------------------------------
(* Bounds of the model *)

MaxEdges == 5      \* falling edges the environment produces
MaxNow == 600      \* the clock is followed step by step up to this instant
TickStep == 200    \* ticks by which one clock step advances the clock

(* Program constants *)

TimerHz == 1000            \* Systick<1000>
DelayTicks == 5000         \* Duration::from_ticks(5000)
IntTogglePriority == 1     \* #[task(binds = ...)] without priority
DebouncePriority == 1      \* #[task(...)] without priority
DebounceCapacity == 1      \* #[task(...)] without capacity

High == TRUE
Low == FALSE

----------------------------------------------------------------------------
(* Helpers *)

Max(a, b) == IF a >= b THEN a ELSE b

\* Duration::<u64, 1, 1000>: ticks of the monotonic to milliseconds
TicksToMs(t) == (t * 1000) \div TimerHz

\* let delay_500ms = Duration::<u64, 1, 1000>::from_ticks(5000);
delay_500ms == DelayTicks

\* variant: int_toggle is declared one priority level above debounce
TaskPriority_HandlerAbove(t) ==
    IF t = "int_toggle" THEN DebouncePriority + 1 ELSE DebouncePriority

TaskPriority(t) == IF t = "int_toggle" THEN IntTogglePriority ELSE DebouncePriority

\* shared = [pressed, button] on both tasks: ceiling of both resources
Ceiling == Max(TaskPriority("int_toggle"), TaskPriority("debounce"))

Tasks == {"int_toggle", "debounce"}

\* the resources a task is inside the lock closure of
Held(t) == held[t]

\* resource.lock(|r| ...): the closure is entered
Acquire(h, r) == h \cup {r}

\* variant: the next lock is taken inside the closure of this one
ReleaseRegion_Nested(h, r) == h

\* the closure returns and the lock is released
ReleaseRegion(h, r) == h \ {r}

\* variant: toggle() leaves the output as it is
LedToggle_Keep(l) == l

\* cx.local.led.toggle()
LedToggle(l) == ~l

EffectivePriority(t) ==
    IF Held(t) = {} THEN TaskPriority(t) ELSE Max(TaskPriority(t), Ceiling)

RECURSIVE StackPriority(_)
StackPriority(s) ==
    IF s = << >> THEN 0
    ELSE Max(EffectivePriority(s[Len(s)]), StackPriority(SubSeq(s, 1, Len(s) - 1)))

\* variant: the core takes an interrupt whatever is running
CurrentPriority_Unmasked == StackPriority(<< >>)

CurrentPriority == StackPriority(stack)

Running(t) == stack # << >> /\ stack[Len(stack)] = t

Pop(s) == SubSeq(s, 1, Len(s) - 1)

FreeSlots == DebounceCapacity - Len(tq) - rq

\* variant: the handler takes every edge for a new press
IsNewPress_NoGate(p) == TRUE

\* if *pressed == false
IsNewPress(p) == p = FALSE

\* variant: the handler leaves the interrupt-status bit as it is
ClearTriggered_Skip(t) == t

\* button.clear_triggered()
ClearTriggered(t) == FALSE

\* while button.is_set() { }
PollAgain(lvl) == lvl = High

\* variant: debounce writes the flag without clearing it
DebounceFlagValue_Set == TRUE

\* *pressed = false  (debounce)
DebounceFlagValue == FALSE

\* variant: both branches log the same message
TraceEvent_Same(newPress) == "triggered"

\* log::info!("Interrupt was triggered!") / log::info!("bounce...")
TraceEvent(newPress) == IF newPress THEN "triggered" ELSE "bounce"

----------------------------------------------------------------------------
Init ==
    /\ pressed = FALSE
    /\ led = FALSE
    /\ level \in BOOLEAN
    /\ triggered = FALSE
    /\ now = 0
    /\ tq = << >>
    /\ rq = 0
    /\ stack = << >>
    /\ pcInt = "idle"
    /\ pcDeb = "idle"
    /\ panicked = FALSE
    /\ userDone = FALSE
    /\ held = [t \in Tasks |-> {}]
    /\ asleep = FALSE
    /\ edgeInDebounce = FALSE
    /\ servingDebounceEdge = FALSE
    /\ edges = 0
    /\ invocations = 0
    /\ toggles = 0
    /\ spawned = 0
    /\ dispatched = 0
    /\ logTriggered = 0
    /\ logBounce = 0
    /\ cleared = FALSE
    /\ entryPressed = FALSE
    /\ lastEvent = "none"
    /\ lastRead = High
    /\ lastWrite = [by |-> "init", from |-> FALSE, to |-> FALSE]
    /\ spawnedAt = -1
    /\ spawnDelay = -1
    /\ dispatchedAt = -1
    /\ firstEdgeAt = -1
    /\ secondEdgeAt = -1

----------------------------------------------------------------------------
(* Environment: the button and the user *)

\* the contact closes: the pulled-up line falls and the edge is latched
Press ==
    /\ ~userDone
    /\ level = High
    /\ edges < MaxEdges
    /\ level' = Low
    /\ triggered' = TRUE
    /\ edges' = edges + 1
    /\ firstEdgeAt' = IF edges = 0 THEN now ELSE firstEdgeAt
    /\ secondEdgeAt' = IF edges = 1 THEN now ELSE secondEdgeAt
    /\ edgeInDebounce' = (edgeInDebounce \/ pcDeb # "idle")
    /\ UNCHANGED << held, asleep, servingDebounceEdge >>
    /\ UNCHANGED << pressed, led, now, tq, rq, stack, pcInt, pcDeb, panicked,
                    userDone, invocations, toggles, spawned, dispatched,
                    logTriggered, logBounce, cleared, entryPressed, lastEvent,
                    lastRead, lastWrite, spawnedAt, spawnDelay, dispatchedAt >>

\* the contact opens: the pull-up raises the line, no interrupt
Release ==
    /\ ~userDone
    /\ level = Low
    /\ level' = High
    /\ UNCHANGED << pressed, led, triggered, now, tq, rq, stack, pcInt, pcDeb,
                    panicked, userDone >>
    /\ UNCHANGED << held, asleep, edgeInDebounce, servingDebounceEdge >>
    /\ UNCHANGED obsVars

\* the user leaves the button alone from now on
UserStops ==
    /\ ~userDone
    /\ userDone' = TRUE
    /\ UNCHANGED << pressed, led, level, triggered, now, tq, rq, stack, pcInt,
                    pcDeb, panicked >>
    /\ UNCHANGED << held, asleep, edgeInDebounce, servingDebounceEdge >>
    /\ UNCHANGED obsVars

----------------------------------------------------------------------------
(* Monotonic clock and its SysTick handler *)

\* variant: the expiry of the head is never noticed
Expired_Never(instant, t) == FALSE

\* the timer queue's check in the SysTick handler: the head has expired
Expired(instant, t) == instant <= t

\* the clock reaches instant t; an expired head of the timer queue is made
\* ready for the dispatcher
ClockReaches(t) ==
    /\ ~panicked
    /\ now' = t
    /\ asleep' = FALSE
    /\ UNCHANGED << held, edgeInDebounce, servingDebounceEdge >>
    /\ IF tq # << >> /\ Expired(Head(tq), t)
       THEN /\ tq' = Tail(tq)
            /\ rq' = rq + 1
            /\ dispatchedAt' = t
       ELSE UNCHANGED << tq, rq, dispatchedAt >>
    /\ UNCHANGED << pressed, led, level, triggered, stack, pcInt, pcDeb,
                    panicked, userDone, edges, invocations, toggles, spawned,
                    dispatched, logTriggered, logBounce, cleared, entryPressed,
                    lastEvent, lastRead, lastWrite, spawnedAt, spawnDelay,
                    firstEdgeAt, secondEdgeAt >>

\* the clock advances by one step
Tick ==
    /\ now < MaxNow
    /\ ClockReaches(now + TickStep)

\* the clock runs, with nothing else happening, up to the instant of the
\* head of the timer queue
TickUntilDeadline ==
    /\ tq # << >>
    /\ Head(tq) > now
    /\ ClockReaches(Head(tq))

----------------------------------------------------------------------------
(* int_toggle: hardware task bound to the GPIO interrupt of the button *)

\* the pending interrupt is taken; the handler enters button.lock
IntToggleEnter ==
    /\ ~panicked
    /\ triggered
    /\ pcInt = "idle"
    /\ TaskPriority("int_toggle") > CurrentPriority
    /\ stack' = Append(stack, "int_toggle")
    /\ pcInt' = "button"
    /\ invocations' = invocations + 1
    /\ cleared' = FALSE
    /\ entryPressed' = pressed
    /\ held' = [held EXCEPT !["int_toggle"] = Acquire(@, "button")]
    /\ asleep' = FALSE
    /\ UNCHANGED << edgeInDebounce, servingDebounceEdge >>
    /\ UNCHANGED << pressed, led, level, triggered, now, tq, rq, pcDeb,
                    panicked, userDone, edges, toggles, spawned, dispatched,
                    logTriggered, logBounce, lastEvent, lastRead, lastWrite,
                    spawnedAt, spawnDelay, dispatchedAt, firstEdgeAt,
                    secondEdgeAt >>

\* button.lock(|button| button.clear_triggered()); then pressed.lock is entered
IntToggleClear ==
    /\ ~panicked
    /\ Running("int_toggle")
    /\ pcInt = "button"
    /\ triggered' = ClearTriggered(triggered)
    /\ cleared' = (triggered' = FALSE)
    /\ servingDebounceEdge' = edgeInDebounce
    /\ edgeInDebounce' = FALSE
    /\ held' = [held EXCEPT !["int_toggle"] =
                    Acquire(ReleaseRegion(@, "button"), "pressed")]
    /\ pcInt' = "pressed"
    /\ UNCHANGED asleep
    /\ UNCHANGED << pressed, led, level, now, tq, rq, stack, pcDeb, panicked,
                    userDone, edges, invocations, toggles, spawned, dispatched,
                    logTriggered, logBounce, entryPressed, lastEvent, lastRead,
                    lastWrite, spawnedAt, spawnDelay, dispatchedAt,
                    firstEdgeAt, secondEdgeAt >>

\* the closure of pressed.lock, and the return of the handler
IntToggleBody ==
    /\ ~panicked
    /\ Running("int_toggle")
    /\ pcInt = "pressed"
    /\ lastEvent' = TraceEvent(IsNewPress(pressed))
    /\ logTriggered' = logTriggered + (IF lastEvent' = "triggered" THEN 1 ELSE 0)
    /\ logBounce' = logBounce + (IF lastEvent' = "bounce" THEN 1 ELSE 0)
    /\ IF IsNewPress(pressed)
       THEN /\ pressed' = TRUE
            /\ lastWrite' = [by |-> "int_toggle", from |-> pressed, to |-> TRUE]
            /\ led' = LedToggle(led)
            /\ toggles' = toggles + 1
            /\ spawnedAt' = now
            /\ spawnDelay' = delay_500ms
            /\ IF FreeSlots > 0
               THEN /\ tq' = Append(tq, now + delay_500ms)
                    /\ spawned' = spawned + 1
                    /\ panicked' = FALSE
               ELSE /\ panicked' = TRUE
                    /\ UNCHANGED << tq, spawned >>
       ELSE UNCHANGED << pressed, lastWrite, led, toggles, spawnedAt,
                         spawnDelay, tq, spawned, panicked >>
    /\ IF panicked'
       THEN UNCHANGED << stack, pcInt, held >>
       ELSE /\ stack' = Pop(stack)
            /\ pcInt' = "idle"
            /\ held' = [held EXCEPT !["int_toggle"] = ReleaseRegion(@, "pressed")]
    /\ UNCHANGED << asleep, edgeInDebounce, servingDebounceEdge >>
    /\ UNCHANGED << level, triggered, now, rq, pcDeb, userDone, edges,
                    invocations, dispatched, cleared, entryPressed, lastRead,
                    dispatchedAt, firstEdgeAt, secondEdgeAt >>

----------------------------------------------------------------------------
(* debounce: software task run by the GPT1 dispatcher *)

\* the dispatcher takes the ready instance and frees its slot
DebounceDispatch ==
    /\ ~panicked
    /\ rq > 0
    /\ pcDeb = "idle"
    /\ TaskPriority("debounce") > CurrentPriority
    /\ rq' = rq - 1
    /\ stack' = Append(stack, "debounce")
    /\ pcDeb' = "start"
    /\ dispatched' = dispatched + 1
    /\ asleep' = FALSE
    /\ UNCHANGED << held, edgeInDebounce, servingDebounceEdge >>
    /\ UNCHANGED << pressed, led, level, triggered, now, tq, pcInt, panicked,
                    userDone, edges, invocations, toggles, spawned,
                    logTriggered, logBounce, cleared, entryPressed, lastEvent,
                    lastRead, lastWrite, spawnedAt, spawnDelay, dispatchedAt,
                    firstEdgeAt, secondEdgeAt >>

\* log::info!("debounced!"); button.lock is entered
DebounceStart ==
    /\ ~panicked
    /\ Running("debounce")
    /\ pcDeb = "start"
    /\ pcDeb' = "poll"
    /\ held' = [held EXCEPT !["debounce"] = Acquire(@, "button")]
    /\ UNCHANGED << pressed, led, level, triggered, now, tq, rq, stack, pcInt,
                    panicked, userDone, asleep, edgeInDebounce,
                    servingDebounceEdge >>
    /\ UNCHANGED obsVars

\* one evaluation of the loop condition button.is_set()
DebouncePoll ==
    /\ ~panicked
    /\ Running("debounce")
    /\ pcDeb = "poll"
    /\ lastRead' = level
    /\ pcDeb' = IF PollAgain(level) THEN "poll" ELSE "pressed"
    /\ held' = IF PollAgain(level) THEN held
               ELSE [held EXCEPT !["debounce"] =
                        Acquire(ReleaseRegion(@, "button"), "pressed")]
    /\ UNCHANGED << asleep, edgeInDebounce, servingDebounceEdge >>
    /\ UNCHANGED << pressed, led, level, triggered, now, tq, rq, stack, pcInt,
                    panicked, userDone, edges, invocations, toggles, spawned,
                    dispatched, logTriggered, logBounce, cleared, entryPressed,
                    lastEvent, lastWrite, spawnedAt, spawnDelay, dispatchedAt,
                    firstEdgeAt, secondEdgeAt >>

\* pressed.lock(|pressed| *pressed = false); the task returns
DebounceClear ==
    /\ ~panicked
    /\ Running("debounce")
    /\ pcDeb = "pressed"
    /\ pressed' = DebounceFlagValue
    /\ lastWrite' = [by |-> "debounce", from |-> pressed, to |-> pressed']
    /\ stack' = Pop(stack)
    /\ pcDeb' = "idle"
    /\ held' = [held EXCEPT !["debounce"] = ReleaseRegion(@, "pressed")]
    /\ UNCHANGED << asleep, edgeInDebounce, servingDebounceEdge >>
    /\ UNCHANGED << led, level, triggered, now, tq, rq, pcInt, panicked,
                    userDone, edges, invocations, toggles, spawned, dispatched,
                    logTriggered, logBounce, cleared, entryPressed, lastEvent,
                    lastRead, spawnedAt, spawnDelay, dispatchedAt, firstEdgeAt,
                    secondEdgeAt >>

----------------------------------------------------------------------------
(* idle: the background loop *)

\* loop { cortex_m::asm::wfi(); }: the core sleeps until the next interrupt
Idle ==
    /\ ~panicked
    /\ stack = << >>
    /\ ~asleep
    /\ asleep' = TRUE
    /\ UNCHANGED << pressed, led, level, triggered, now, tq, rq, stack, pcInt,
                    pcDeb, panicked, userDone, held, edgeInDebounce,
                    servingDebounceEdge >>
    /\ UNCHANGED obsVars

----------------------------------------------------------------------------
IntToggleStep == IntToggleEnter \/ IntToggleClear \/ IntToggleBody

DebounceStep == DebounceDispatch \/ DebounceStart \/ DebouncePoll \/ DebounceClear

Next ==
    \/ Press
    \/ Release
    \/ UserStops
    \/ Tick
    \/ TickUntilDeadline
    \/ IntToggleEnter
    \/ IntToggleClear
    \/ IntToggleBody
    \/ DebounceDispatch
    \/ DebounceStart
    \/ DebouncePoll
    \/ DebounceClear
    \/ Idle

Spec == Init /\ [][Next]_vars

\* the clock runs and the core executes whatever is runnable
FairSpec ==
    /\ Spec
    /\ WF_vars(TickUntilDeadline)
    /\ WF_vars(IntToggleStep)
    /\ WF_vars(DebounceStep)

----------------------------------------------------------------------------
(* Properties *)

Outstanding == Len(tq) + rq

\* C1: in every debounce window, from the handler invocation that opens it
\* to the dispatch of the debounce task it scheduled, the LED is toggled
\* exactly once and exactly one debounce invocation follows, however many
\* edges and handler invocations fall inside the window.
C1_OneTogglePerWindow ==
    /\ toggles = spawned
    /\ dispatched <= spawned
    /\ spawned - dispatched <= 1
    /\ (Outstanding > 0 => toggles = dispatched + 1)
    /\ (Outstanding = 0 /\ ~panicked => toggles = dispatched)

\* a window with three served edges has just ended: one toggle, one debounce
C1_Witness ==
    /\ pcDeb = "start"
    /\ dispatched = 1
    /\ toggles = 1
    /\ edges >= 3
    /\ invocations >= 3
    /\ pcInt = "idle"

\* C2: when debounce has left its poll loop and is about to write
\* pressed = false, the level it last read is the released level (line high).
C2_ReleasedBeforeClear == pcDeb = "pressed" => lastRead = High

\* C3: every invocation of int_toggle has cleared the pending-interrupt flag
\* before it reaches the pressed region and before it returns, on both
\* branches, so the handler is entered at most once per falling edge.
C3_FlagCleared ==
    /\ (pcInt = "pressed" => cleared)
    /\ (pcInt = "idle" /\ invocations > 0 => cleared)
    /\ invocations <= edges

\* both branches have returned, the flag is clear and nothing is pending
C3_Witness ==
    /\ pcInt = "idle"
    /\ logTriggered >= 1
    /\ logBounce >= 1
    /\ lastEvent = "bounce"
    /\ cleared
    /\ ~triggered
    /\ invocations = edges

\* C4: pressed starts false; it is written true only by int_toggle and only
\* when it was false, written false only by debounce and only when it was
\* true, and by nobody else.
C4_FlagAlternates ==
    /\ pressed = lastWrite.to
    /\ lastWrite.by \in {"init", "int_toggle", "debounce"}
    /\ (lastWrite.by = "init" => pressed = FALSE)
    /\ (lastWrite.by = "int_toggle" => lastWrite.from = FALSE /\ lastWrite.to = TRUE)
    /\ (lastWrite.by = "debounce" => lastWrite.from = TRUE /\ lastWrite.to = FALSE)

\* the flag has gone through two full cycles
C4_Witness ==
    /\ lastWrite.by = "debounce"
    /\ dispatched = 2
    /\ pcDeb = "idle"
    /\ pressed = FALSE

\* C5: spawn_after never fails: whenever the handler is about to schedule
\* debounce, no earlier instance is still queued, so unwrap never faults.
C5_NoScheduleFault ==
    /\ ~panicked
    /\ Outstanding <= DebounceCapacity
    /\ (pcInt = "pressed" /\ pressed = FALSE => Outstanding = 0)

\* a second instance has been scheduled after the first one was dispatched
C5_Witness ==
    /\ spawned = 2
    /\ Len(tq) = 1
    /\ ~panicked

\* C6: after one clean press (one falling edge, released, nothing more) the
\* LED has toggled once and, the debounce task having been dispatched,
\* pressed becomes false again.
C6_CleanPressRearms ==
    (edges = 1 /\ userDone /\ level = High)
        ~> (toggles = 1 /\ dispatched = 1 /\ pressed = FALSE)

\* C7: while the button stays closed, debounce stays in its poll loop and
\* pressed stays true; pressed falls only after a read of the released level.
C7_HeldButtonKeepsPolling ==
    [][ /\ (pcDeb = "poll" /\ level = Low /\ level' = Low
              => pcDeb' = "poll" /\ pressed')
        /\ (pressed /\ ~pressed' => lastRead = High) ]_vars

\* C8: the delay handed to spawn_after is 500 ms, i.e. 500 ticks of the
\* 1 kHz monotonic, and the instance is made ready no earlier than 500 ms
\* after the call.
C8_DelayIs500ms ==
    /\ (spawnDelay # -1 => spawnDelay = 500 /\ TicksToMs(spawnDelay) = 500)
    /\ (rq > 0 \/ pcDeb # "idle" => TicksToMs(dispatchedAt - spawnedAt) >= 500)

\* C9: two clean presses whose falling edges are 600 ms apart, each served
\* by the handler at the instant of its edge, give two LED toggles and two
\* scheduled debounce tasks.
C9_TwoPressesTwoCycles ==
    (/\ edges = 2
     /\ spawnedAt = (IF spawned = 2 THEN secondEdgeAt ELSE firstEdgeAt)
     /\ TicksToMs(secondEdgeAt - firstEdgeAt) = 600
     /\ invocations = 2
     /\ pcInt = "idle"
     /\ level = High)
        => (toggles = 2 /\ spawned = 2)

\* C10: every handler invocation emits one trace event, "triggered" if
\* pressed was false on entry and "bounce" otherwise; N served edges inside
\* the first window give 1 "triggered", N-1 "bounce" and one LED toggle.
C10_TraceEvents ==
    /\ logTriggered + logBounce = invocations - (IF pcInt = "idle" THEN 0 ELSE 1)
    /\ (pcInt = "idle" /\ invocations > 0
          => lastEvent = IF entryPressed THEN "bounce" ELSE "triggered")
    /\ (pcInt = "idle" /\ invocations > 0 /\ dispatched = 0
          => logTriggered = 1 /\ logBounce = invocations - 1 /\ toggles = 1)

\* five edges served inside one window: 1 + 4 events, one toggle
C10_Witness ==
    /\ pcInt = "idle"
    /\ dispatched = 0
    /\ invocations = 5
    /\ logTriggered = 1
    /\ logBounce = 4
    /\ toggles = 1

C12_ScheduledEventuallyRuns == (Outstanding > 0) ~> (pcDeb = "start")

\* the second scheduled instance starts after edges that came in between
C12_Witness ==
    /\ pcDeb = "start"
    /\ dispatched = 2
    /\ edges >= 3

\* C13: the handler and debounce are never both inside the lock closure of
\* the same resource; while one holds it, the other has not started.
C13_MutualExclusion ==
    /\ Held("int_toggle") \cap Held("debounce") = {}
    /\ (Held("debounce") # {} => pcInt = "idle")
    /\ (Held("int_toggle") # {} => pcDeb = "idle")

\* debounce holds button while an interrupt of the handler is pending
C13_Witness ==
    /\ Held("debounce") = {"button"}
    /\ triggered
    /\ pcInt = "idle"

\* C14: no task is inside two lock closures at once: each releases button
\* before it acquires pressed.
C14_NoNestedRegions ==
    \A t \in Tasks : Cardinality(Held(t)) <= 1

\* both tasks have moved from the button region to the pressed region
C14_Witness ==
    /\ Held("debounce") = {"pressed"}
    /\ invocations >= 1
    /\ dispatched >= 1

\* C15: a handler invocation that finds pressed true changes neither
\* pressed, the LED nor the scheduled debounce tasks; it clears the pending
\* flag and emits one "bounce" event.
C15_BounceFrame ==
    [][ /\ (pcInt' # pcInt /\ pcInt # "pressed"
              => UNCHANGED << pressed, led, tq, rq, toggles, spawned >>)
        /\ ((pcInt = "pressed" /\ pressed /\
             << pcInt, panicked, lastEvent, logBounce, logTriggered >>'
                 # << pcInt, panicked, lastEvent, logBounce, logTriggered >>)
              => /\ UNCHANGED << pressed, led, tq, rq, toggles, spawned >>
                 /\ cleared
                 /\ ~panicked'
                 /\ logBounce' = logBounce + 1
                 /\ logTriggered' = logTriggered) ]_vars

\* a bounce invocation has returned
C15_Witness ==
    /\ pcInt = "idle"
    /\ lastEvent = "bounce"
    /\ entryPressed
    /\ pressed
    /\ toggles = 1

\* C16: the LED level changes only in the handler step that moves pressed
\* from false to true, and that step toggles it once; no step of debounce or
\* of the idle loop changes it.
C16_LedOnlyOnNewPress ==
    [][ /\ (led' # led => /\ pcInt = "pressed" /\ pcInt' = "idle"
                          /\ ~pressed /\ pressed'
                          /\ toggles' = toggles + 1)
        /\ (toggles' # toggles => led' = ~led)
        /\ (pcDeb' # pcDeb \/ asleep' # asleep => led' = led) ]_vars

\* the LED is back off after two toggles, debounce and idle having run
C16_Witness ==
    /\ toggles = 2
    /\ led = FALSE
    /\ dispatched >= 1
    /\ asleep

OutstandingInvocations == Len(tq) + rq + (IF pcDeb # "idle" THEN 1 ELSE 0)

\* C17: at most one debounce invocation is outstanding, and outside the
\* pressed region pressed is true exactly when there is one.
C17_FlagIffOutstanding ==
    /\ OutstandingInvocations \in {0, 1}
    /\ ("pressed" \notin (Held("int_toggle") \cup Held("debounce"))
          => (pressed <=> OutstandingInvocations = 1))

\* second cycle: the flag is set and its debounce is in the poll loop
C17_Witness ==
    /\ pressed
    /\ pcDeb = "poll"
    /\ dispatched = 2

\* C18: while debounce is in its poll loop the handler neither starts nor
\* advances, edges only latch the pending flag, and the LED and pressed
\* keep their values.
C18_PollBlocksHandler ==
    [][ pcDeb = "poll"
          => /\ pcInt = "idle" /\ pcInt' = "idle"
             /\ invocations' = invocations
             /\ led' = led
             /\ pressed' = pressed
             /\ (edges' # edges => triggered') ]_vars

\* two edges have come in during one poll and a single interrupt is pending
C18_Witness ==
    /\ pcDeb = "poll"
    /\ edgeInDebounce
    /\ triggered
    /\ edges - invocations >= 2

====
